---- MODULE Spec2Model ----
(***************************************************************************)
(* Model of the chat message component: the markdown converter             *)
(* markdownToHTML, the math shielding of renderContent (placeholder        *)
(* substitution before conversion, restoration after), and the typing      *)
(* animation effect of ChatMessage.                                        *)
(*                                                                         *)
(* A JavaScript string is a sequence of one-character strings.  Every      *)
(* regular expression of the source is an operator that takes the text and *)
(* a start index and returns the match the regular expression engine finds *)
(* there: [end |-> index of the last matched character, out |-> the        *)
(* replacement], or NoMatch.                                               *)
(***************************************************************************)
EXTENDS Integers, Sequences, FiniteSets

VARIABLES
  text,                 \* renderContent: the argument
  markdown,             \* markdownToHTML: the argument
  textWithPlaceholders, \* renderContent: text after the math extraction
  mathBlocks,           \* renderContent: the extracted math spans
  html,                 \* renderContent / markdownToHTML: the markup built so far
  index,                \* renderContent: forEach index of the restoration (0-based)
  pc,                   \* position in renderContent / markdownToHTML
  messageText,          \* ChatMessage: props.message.text
  role,                 \* ChatMessage: props.message.role
  isLastMessage,        \* ChatMessage: props.isLastMessage
  isLoading,            \* ChatMessage: props.isLoading
  displayedText,        \* ChatMessage: useState('')
  timeoutRef,           \* ChatMessage: useRef(null), 0 is null
  timers,               \* the browser's pending timeouts
  nextTimerId,          \* the id the next window.setTimeout returns
  effectDue,            \* a dependency of the typing effect changed since it last ran
  hasCleanup            \* the last run of the typing effect returned its cleanup

vars == <<text, markdown, textWithPlaceholders, mathBlocks, html, index, pc, messageText, role,
          isLastMessage, isLoading, displayedText, timeoutRef, timers, nextTimerId,
          effectDue, hasCleanup>>

renderVars == <<text, markdown, textWithPlaceholders, mathBlocks, html, index, pc>>

typingVars == <<messageText, role, isLastMessage, isLoading, displayedText, timeoutRef,
                timers, nextTimerId, effectDue, hasCleanup>>

-----------------------------------------------------------------------------
(* Bounds of the model and the inputs drawn within them.                   *)

\* the longest text given to renderContent
MaxTextLen == 5

\* the most columns of a table given to renderContent
MaxMathCols == 2

\* the most columns and rows of a table given to markdownToHTML
MaxCols == 3

MaxRows == 2

\* the most cells in the row lines of a table given to markdownToHTML
MaxBodyCells == 4

\* the longest content of a fenced code block given to markdownToHTML
MaxCodeLen == 4

\* the longest free text given to markdownToHTML
MaxPlainLen == 5

\* the longest text inside an emphasis given to markdownToHTML
MaxEmphasisLen == 2

\* the longest message.text
MaxMessageLen == 3

\* the backtick, which a TLA+ string cannot hold
BT == "backtick"

MathAlphabet == {"$", "x", "&", "*", " "}

MathCells == {<<"a">>, <<"$", "x", "$">>}

CellTexts == {<<"a">>, <<"b">>}

Langs == {<<>>, <<"j", "s">>}

CodeAlphabet == {"x", "<", ">", "\n", "#", " "}

PlainAlphabet == {"x", "\n", "#", " ", BT, "*"}

EmphasisAlphabet == {"x", " ", "~", BT}

OrdinaryTexts == {<<>>, <<" ">>, <<" ", "a", "n", "d", " ">>, <<" ", "-", " ">>, <<"#", " ">>}

MessageAlphabet == {"a", "."}

\* the strings over alphabet A of at least m and at most n characters
Strings(A, m, n) == UNION {[1..k -> A] : k \in m..n}

-----------------------------------------------------------------------------
(* Markup literals of the source.                                          *)

placeholder ==
  <<"_", "_", "_", "M", "A", "T", "H", "J", "A", "X", "_", "P", "L", "A", "C", "E", "H",
        "O", "L", "D", "E", "R", "_", "_", "_">>

PreCodeOpen ==
  <<"<", "p", "r", "e", ">", "<", "c", "o", "d", "e", " ", "c", "l", "a", "s", "s", "=",
        "\"", "l", "a", "n", "g", "u", "a", "g", "e", "-">>

PreCodeMid ==
  <<"\"", ">">>

PreCodeClose ==
  <<"<", "/", "c", "o", "d", "e", ">", "<", "/", "p", "r", "e", ">">>

TableOpen ==
  <<"<", "t", "a", "b", "l", "e", ">", "<", "t", "h", "e", "a", "d", ">", "<", "t", "r",
        ">">>

TableMid ==
  <<"<", "/", "t", "r", ">", "<", "/", "t", "h", "e", "a", "d", ">", "<", "t", "b", "o",
        "d", "y", ">">>

TableClose ==
  <<"<", "/", "t", "b", "o", "d", "y", ">", "<", "/", "t", "a", "b", "l", "e", ">">>

ThOpen ==
  <<"<", "t", "h", ">">>

ThClose ==
  <<"<", "/", "t", "h", ">">>

TdOpen ==
  <<"<", "t", "d", ">">>

TdClose ==
  <<"<", "/", "t", "d", ">">>

TrOpen ==
  <<"<", "t", "r", ">">>

TrClose ==
  <<"<", "/", "t", "r", ">">>

UlOpen ==
  <<"<", "u", "l", ">">>

UlClose ==
  <<"<", "/", "u", "l", ">">>

OlOpen ==
  <<"<", "o", "l", ">">>

OlClose ==
  <<"<", "/", "o", "l", ">">>

BlockquoteOpen ==
  <<"<", "b", "l", "o", "c", "k", "q", "u", "o", "t", "e", ">">>

BlockquoteClose ==
  <<"<", "/", "b", "l", "o", "c", "k", "q", "u", "o", "t", "e", ">">>

UlItemOpen ==
  <<"<", "u", "l", ">", "<", "l", "i", ">">>

UlItemClose ==
  <<"<", "/", "l", "i", ">", "<", "/", "u", "l", ">">>

OlItemOpen ==
  <<"<", "o", "l", ">", "<", "l", "i", ">">>

OlItemClose ==
  <<"<", "/", "l", "i", ">", "<", "/", "o", "l", ">">>

StrongOpen ==
  <<"<", "s", "t", "r", "o", "n", "g", ">">>

StrongClose ==
  <<"<", "/", "s", "t", "r", "o", "n", "g", ">">>

EmOpen ==
  <<"<", "e", "m", ">">>

EmClose ==
  <<"<", "/", "e", "m", ">">>

DelOpen ==
  <<"<", "d", "e", "l", ">">>

DelClose ==
  <<"<", "/", "d", "e", "l", ">">>

InlineCodeOpen ==
  <<"<", "c", "o", "d", "e", " ", "c", "l", "a", "s", "s", "=", "\"", "b", "g", "-", "s",
        "l", "a", "t", "e", "-", "2", "0", "0", " ", "d", "a", "r", "k", ":", "b", "g",
        "-", "s", "l", "a", "t", "e", "-", "9", "0", "0", " ", "t", "e", "x", "t", "-",
        "a", "m", "b", "e", "r", "-", "6", "0", "0", " ", "d", "a", "r", "k", ":", "t",
        "e", "x", "t", "-", "a", "m", "b", "e", "r", "-", "4", "0", "0", " ", "p", "x",
        "-", "1", ".", "5", " ", "p", "y", "-", "1", " ", "r", "o", "u", "n", "d", "e",
        "d", " ", "t", "e", "x", "t", "-", "s", "m", " ", "f", "o", "n", "t", "-", "m",
        "o", "n", "o", "\"", ">">>

InlineCodeClose ==
  <<"<", "/", "c", "o", "d", "e", ">">>

LinkOpen ==
  <<"<", "a", " ", "h", "r", "e", "f", "=", "\"">>

LinkMid ==
  <<"\"", " ", "t", "a", "r", "g", "e", "t", "=", "\"", "_", "b", "l", "a", "n", "k",
        "\"", " ", "r", "e", "l", "=", "\"", "n", "o", "o", "p", "e", "n", "e", "r", " ",
        "n", "o", "r", "e", "f", "e", "r", "r", "e", "r", "\"", " ", "c", "l", "a", "s",
        "s", "=", "\"", "t", "e", "x", "t", "-", "b", "r", "a", "n", "d", " ", "h", "o",
        "v", "e", "r", ":", "u", "n", "d", "e", "r", "l", "i", "n", "e", "\"", ">">>

LinkClose ==
  <<"<", "/", "a", ">">>

POpen ==
  <<"<", "p", ">">>

PClose ==
  <<"<", "/", "p", ">">>

Br ==
  <<"<", "b", "r", ">">>

EntLt ==
  <<"&", "l", "t", ";">>

EntGt ==
  <<"&", "g", "t", ";">>

HOpen(n) == <<"<", "h", <<"1", "2", "3", "4", "5", "6">>[n], ">">>

HClose(n) == <<"<", "/", "h", <<"1", "2", "3", "4", "5", "6">>[n], ">">>

Fence == <<BT, BT, BT>>

BlockTagNames ==
  { <<"h", "1">>, <<"h", "2">>, <<"h", "3">>, <<"h", "4">>, <<"h", "5">>, <<"h", "6">>,
    <<"u", "l">>, <<"o", "l">>, <<"l", "i">>,
    <<"b", "l", "o", "c", "k", "q", "u", "o", "t", "e">>,
    <<"t", "a", "b", "l", "e">>, <<"t", "h", "e", "a", "d">>,
    <<"t", "b", "o", "d", "y">>, <<"t", "r">>, <<"t", "h">>, <<"t", "d">>,
    <<"p", "r", "e">>, <<"c", "o", "d", "e">> }

-----------------------------------------------------------------------------
(* Character classes and string primitives of the regular expressions.     *)

\* \s
WhiteSpace == {" ", "\t", "\n", "\r"}

\* what . does not match, and where ^ and $ match under the m flag
LineTerminator == {"\n", "\r"}

\* \d
Digits == {"0", "1", "2", "3", "4", "5", "6", "7", "8", "9"}

NoMatch == [end |-> 0, out |-> <<>>]

StartsWithAt(s, i, p) ==
  /\ i >= 1
  /\ i + Len(p) - 1 <= Len(s)
  /\ SubSeq(s, i, i + Len(p) - 1) = p

Min(S) == CHOOSE x \in S : \A y \in S : x <= y

Max(S) == CHOOSE x \in S : \A y \in S : x >= y

\* String.prototype.indexOf(p, i), 1-based, 0 when p does not occur
IndexOfFrom(s, p, i) ==
  LET found == {j \in i..(Len(s) - Len(p) + 1) : SubSeq(s, j, j + Len(p) - 1) = p}
  IN  IF found = {} THEN 0 ELSE Min(found)

\* the last index of the longest run of characters of S that starts at i (i-1: none)
RunEnd(s, i, S) ==
  LET stop == {j \in i..Len(s) : s[j] \notin S}
  IN  IF i > Len(s) THEN i - 1
      ELSE IF stop = {} THEN Len(s)
      ELSE Min(stop) - 1

\* the last index of the longest run of characters outside S that starts at i
NotRunEnd(s, i, S) ==
  LET stop == {j \in i..Len(s) : s[j] \in S}
  IN  IF i > Len(s) THEN i - 1
      ELSE IF stop = {} THEN Len(s)
      ELSE Min(stop) - 1

\* the last index in lo..hi that holds c, 0 when none does
LastIndexOfChar(s, c, lo, hi) ==
  LET found == {j \in lo..hi : s[j] = c}
  IN  IF found = {} THEN 0 ELSE Max(found)

\* the last index at or before j of a character that is not white space, 0 when none
LastNonSpace(s, j) ==
  LET found == {k \in 1..j : s[k] \notin WhiteSpace}
  IN  IF found = {} THEN 0 ELSE Max(found)

\* String.prototype.trim
Trim(s) ==
  LET a == RunEnd(s, 1, WhiteSpace) + 1
      b == LastNonSpace(s, Len(s))
  IN  IF a > b THEN <<>> ELSE SubSeq(s, a, b)

\* String.prototype.split(c) for a one-character separator
RECURSIVE Split(_, _)
Split(s, c) ==
  LET k == IndexOfFrom(s, <<c>>, 1)
  IN  IF k = 0 THEN <<s>>
      ELSE <<SubSeq(s, 1, k - 1)>> \o Split(SubSeq(s, k + 1, Len(s)), c)

\* Array.prototype.slice(1, -1)
Slice(a) == IF Len(a) <= 2 THEN <<>> ELSE SubSeq(a, 2, Len(a) - 1)

\* Array.prototype.join('')
RECURSIVE Join(_)
Join(a) ==
  IF Len(a) = 0 THEN <<>>
  ELSE IF Len(a) = 1 THEN a[1]
  ELSE LET half == Len(a) \div 2
       IN  Join(SubSeq(a, 1, half)) \o Join(SubSeq(a, half + 1, Len(a)))

\* ^ under the m flag
AtLineStart(s, i) == i = 1 \/ s[i - 1] \in LineTerminator

\* String.prototype.replace(regexp with the g flag, ...): the matches are taken left
\* to right, each search starting after the previous match; matches[j] is the match
\* of the regular expression that starts at index j.
\* `starts` holds the indices at which the regular expression matches.
RECURSIVE ReplaceFrom(_, _, _, _)
ReplaceFrom(matches, s, starts, i) ==
  LET next == {j \in starts : j >= i}
      m == matches[Min(next)]
  IN  IF next = {} THEN SubSeq(s, i, Len(s))
      ELSE SubSeq(s, i, Min(next) - 1) \o m.out \o ReplaceFrom(matches, s, starts, m.end + 1)

\* matches[j] is the match of the regular expression at index j of s
ReplaceAll(matches, s) ==
  ReplaceFrom(matches, s, {j \in 1..Len(s) : matches[j].end >= j}, 1)

-----------------------------------------------------------------------------
(* markdownToHTML: block elements.                                         *)

\* /^#{n} (.*$)/gim -> <hn>$1</hn>
HeadingMatch(n, s, i) ==
  LET prefix == [k \in 1..n |-> "#"] \o <<" ">>
      e == NotRunEnd(s, i + n + 1, LineTerminator)
  IN  IF AtLineStart(s, i) /\ StartsWithAt(s, i, prefix)
      THEN [end |-> e, out |-> HOpen(n) \o SubSeq(s, i + n + 1, e) \o HClose(n)]
      ELSE NoMatch

Heading(n, s) == ReplaceAll([i \in 1..Len(s) |-> HeadingMatch(n, s, i)], s)

Headings(s) == Heading(1, Heading(2, Heading(3, Heading(4, Heading(5, Heading(6, s))))))

LtMatch(s, i) == IF s[i] = "<" THEN [end |-> i, out |-> EntLt] ELSE NoMatch

GtMatch(s, i) == IF s[i] = ">" THEN [end |-> i, out |-> EntGt] ELSE NoMatch

\* code.replace(/</g, '&lt;').replace(/>/g, '&gt;')
escapedCode(code) ==
  LET lt == ReplaceAll([i \in 1..Len(code) |-> LtMatch(code, i)], code)
  IN  ReplaceAll([i \in 1..Len(lt) |-> GtMatch(lt, i)], lt)

\* /```(.*?)\n([\s\S]*?)```/g
FenceMatch(s, i) ==
  IF ~StartsWithAt(s, i, Fence) THEN NoMatch
  ELSE LET le == NotRunEnd(s, i + 3, LineTerminator)
           lang == SubSeq(s, i + 3, le)
       IN  IF le + 1 > Len(s) \/ s[le + 1] # "\n" THEN NoMatch
           ELSE LET k == IndexOfFrom(s, Fence, le + 2)
                    code == SubSeq(s, le + 2, k - 1)
                IN  IF k = 0 THEN NoMatch
                    ELSE [end |-> k + 2,
                          out |-> PreCodeOpen \o lang \o PreCodeMid
                                    \o Trim(escapedCode(code)) \o PreCodeClose]

FencedCodeBlocks(s) == ReplaceAll([i \in 1..Len(s) |-> FenceMatch(s, i)], s)

\* the index of the newline of \r?\n when it follows index p, else 0
NewlineAfter(s, p) ==
  IF p + 1 <= Len(s) /\ s[p + 1] = "\n" THEN p + 1
  ELSE IF p + 2 <= Len(s) /\ s[p + 1] = "\r" /\ s[p + 2] = "\n" THEN p + 2
  ELSE 0

\* ( *[-:]+[-| :]*) matches the whole of x
IsSeparator(x) ==
  LET a == RunEnd(x, 1, {" "})
  IN  /\ a + 1 <= Len(x)
      /\ x[a + 1] \in {"-", ":"}
      /\ \A k \in (a + 2)..Len(x) : x[k] \in {"-", "|", " ", ":"}

\* ((?:\|.*\|\r?\n?)*) from index r: the index of the last character of the body
RECURSIVE BodyEnd(_, _)
BodyEnd(s, r) ==
  IF r > Len(s) \/ s[r] # "|" THEN r - 1
  ELSE LET le == NotRunEnd(s, r + 1, LineTerminator)
           p == LastIndexOfChar(s, "|", r + 1, le)
           a == IF p + 1 <= Len(s) /\ s[p + 1] = "\r" THEN p + 1 ELSE p
           b == IF a + 1 <= Len(s) /\ s[a + 1] = "\n" THEN a + 1 ELSE a
       IN  IF p = 0 THEN r - 1 ELSE BodyEnd(s, b + 1)

\* header.split('|').slice(1, -1).map(h => `<th>${h.trim()}</th>`).join('')
headers(header) ==
  LET cells == Slice(Split(header, "|"))
  IN  Join([k \in 1..Len(cells) |-> ThOpen \o Trim(cells[k]) \o ThClose])

\* rowStr.split('|').slice(1, -1).map(c => `<td>${c.trim()}</td>`).join('') in <tr>
tableRow(rowStr) ==
  LET cells == Slice(Split(rowStr, "|"))
  IN  TrOpen \o Join([k \in 1..Len(cells) |-> TdOpen \o Trim(cells[k]) \o TdClose])
        \o TrClose

\* body.trim().split('\n').map(rowStr => ...).join('')
rows(body) ==
  LET lines == Split(Trim(body), "\n")
  IN  Join([k \in 1..Len(lines) |-> tableRow(lines[k])])

\* /^\|(.+)\|\r?\n\|( *[-:]+[-| :]*)\|\r?\n((?:\|.*\|\r?\n?)*)/gm
TableMatch(s, i) ==
  IF ~(AtLineStart(s, i) /\ s[i] = "|") THEN NoMatch
  ELSE LET hEnd == NotRunEnd(s, i + 1, LineTerminator)
           hNl == NewlineAfter(s, hEnd)
       IN  IF ~(hEnd >= i + 2 /\ s[hEnd] = "|" /\ hNl # 0) THEN NoMatch
           ELSE LET q == hNl + 1
                    sEnd == NotRunEnd(s, q, LineTerminator)
                    sNl == NewlineAfter(s, sEnd)
                IN  IF ~(/\ sEnd >= q + 2
                         /\ s[q] = "|"
                         /\ s[sEnd] = "|"
                         /\ sNl # 0
                         /\ IsSeparator(SubSeq(s, q + 1, sEnd - 1)))
                    THEN NoMatch
                    ELSE LET bEnd == BodyEnd(s, sNl + 1)
                             header == SubSeq(s, i + 1, hEnd - 1)
                             body == SubSeq(s, sNl + 1, bEnd)
                         IN  [end |-> bEnd,
                              out |-> TableOpen \o headers(header) \o TableMid
                                        \o rows(body) \o TableClose]

Tables(s) == ReplaceAll([i \in 1..Len(s) |-> TableMatch(s, i)], s)

\* /^\> (.*$)/gim -> <blockquote>$1</blockquote>
BlockquoteMatch(s, i) ==
  LET e == NotRunEnd(s, i + 2, LineTerminator)
  IN  IF AtLineStart(s, i) /\ StartsWithAt(s, i, <<">", " ">>)
      THEN [end |-> e, out |-> BlockquoteOpen \o SubSeq(s, i + 2, e) \o BlockquoteClose]
      ELSE NoMatch

Blockquotes(s) == ReplaceAll([i \in 1..Len(s) |-> BlockquoteMatch(s, i)], s)

\* /^\s*([*-]) (.*)/gm -> <ul><li>$2</li></ul>
UnorderedMatch(s, i) ==
  LET j == RunEnd(s, i, WhiteSpace) + 1
      e == NotRunEnd(s, j + 2, LineTerminator)
  IN  IF /\ AtLineStart(s, i)
         /\ j + 1 <= Len(s)
         /\ s[j] \in {"*", "-"}
         /\ s[j + 1] = " "
      THEN [end |-> e, out |-> UlItemOpen \o SubSeq(s, j + 2, e) \o UlItemClose]
      ELSE NoMatch

\* /^\s*(\d+)\. (.*)/gm -> <ol><li>$2</li></ol>
OrderedMatch(s, i) ==
  LET j == RunEnd(s, i, WhiteSpace) + 1
      d == RunEnd(s, j, Digits)
      e == NotRunEnd(s, d + 3, LineTerminator)
  IN  IF /\ AtLineStart(s, i)
         /\ d >= j
         /\ d + 2 <= Len(s)
         /\ s[d + 1] = "."
         /\ s[d + 2] = " "
      THEN [end |-> e, out |-> OlItemOpen \o SubSeq(s, d + 3, e) \o OlItemClose]
      ELSE NoMatch

\* /<\/ul>\s*<ul>/g and /<\/ol>\s*<ol>/g -> ''
MergeMatch(close, open, s, i) ==
  LET w == RunEnd(s, i + Len(close), WhiteSpace)
  IN  IF StartsWithAt(s, i, close) /\ StartsWithAt(s, w + 1, open)
      THEN [end |-> w + Len(open), out |-> <<>>]
      ELSE NoMatch

Lists(s) ==
  LET ul == ReplaceAll([i \in 1..Len(s) |-> UnorderedMatch(s, i)], s)
      ol == ReplaceAll([i \in 1..Len(ul) |-> OrderedMatch(ul, i)], ul)
      mergedUl == ReplaceAll([i \in 1..Len(ol) |-> MergeMatch(UlClose, UlOpen, ol, i)], ol)
  IN  ReplaceAll([i \in 1..Len(mergedUl) |-> MergeMatch(OlClose, OlOpen, mergedUl, i)],
                 mergedUl)

\* the first statement of markdownToHTML
BlockElements(md) ==
  Lists(Blockquotes(Tables(FencedCodeBlocks(Headings(md)))))

-----------------------------------------------------------------------------
(* markdownToHTML: inline elements.                                        *)

\* /d(.*?)d/g -> open $1 close, for the delimiters ** * ~~
DelimMatch(d, open, close, s, i) ==
  IF ~StartsWithAt(s, i, d) THEN NoMatch
  ELSE LET le == NotRunEnd(s, i + Len(d), LineTerminator)
           k == IndexOfFrom(s, d, i + Len(d))
       IN  IF k = 0 \/ k - 1 > le THEN NoMatch
           ELSE [end |-> k + Len(d) - 1,
                 out |-> open \o SubSeq(s, i + Len(d), k - 1) \o close]

Bold(s) ==
  ReplaceAll([i \in 1..Len(s) |-> DelimMatch(<<"*", "*">>, StrongOpen, StrongClose, s, i)], s)

Italic(s) == ReplaceAll([i \in 1..Len(s) |-> DelimMatch(<<"*">>, EmOpen, EmClose, s, i)], s)

Strikethrough(s) ==
  ReplaceAll([i \in 1..Len(s) |-> DelimMatch(<<"~", "~">>, DelOpen, DelClose, s, i)], s)

\* /`([^`]+)`/g
InlineCodeMatch(s, i) ==
  LET e == NotRunEnd(s, i + 1, {BT})
  IN  IF s[i] = BT /\ e >= i + 1 /\ e + 1 <= Len(s)
      THEN [end |-> e + 1, out |-> InlineCodeOpen \o SubSeq(s, i + 1, e) \o InlineCodeClose]
      ELSE NoMatch

InlineCode(s) == ReplaceAll([i \in 1..Len(s) |-> InlineCodeMatch(s, i)], s)

\* /\[([^\]]+)\]\(([^)]+)\)/g
LinkMatch(s, i) ==
  LET j == NotRunEnd(s, i + 1, {"]"})
      k == NotRunEnd(s, j + 3, {")"})
  IN  IF /\ s[i] = "["
         /\ j >= i + 1
         /\ j + 2 <= Len(s)
         /\ s[j + 2] = "("
         /\ k >= j + 3
         /\ k + 1 <= Len(s)
      THEN [end |-> k + 1,
            out |-> LinkOpen \o SubSeq(s, j + 3, k) \o LinkMid \o SubSeq(s, i + 1, j)
                      \o LinkClose]
      ELSE NoMatch

Links(s) == ReplaceAll([i \in 1..Len(s) |-> LinkMatch(s, i)], s)

\* the second statement of markdownToHTML
InlineElements(s) == Links(InlineCode(Strikethrough(Italic(Bold(s)))))

-----------------------------------------------------------------------------
(* markdownToHTML: paragraphs.                                             *)

\* /\n\s*\n/ at index q: the index of its last character, 0 when it does not match
SeparatorEnd(s, q) ==
  IF s[q] # "\n" THEN 0
  ELSE LastIndexOfChar(s, "\n", q + 1, RunEnd(s, q + 1, WhiteSpace))

\* String.prototype.split(/\n\s*\n/): p is the start of the current piece
RECURSIVE SplitParagraphs(_, _)
SplitParagraphs(s, p) ==
  LET next == {q \in p..Len(s) : SeparatorEnd(s, q) # 0}
      q == Min(next)
  IN  IF next = {} THEN <<SubSeq(s, p, Len(s))>>
      ELSE <<SubSeq(s, p, q - 1)>> \o SplitParagraphs(s, SeparatorEnd(s, q) + 1)

\* /^(<\/?(h[1-6]|ul|ol|li|blockquote|table|thead|tbody|tr|th|td|pre|code))/
IsBlockElement(t) ==
  /\ Len(t) >= 1
  /\ t[1] = "<"
  /\ \E name \in BlockTagNames :
        StartsWithAt(t, IF Len(t) >= 2 /\ t[2] = "/" THEN 3 ELSE 2, name)

NewlineMatch(s, i) == IF s[i] = "\n" THEN [end |-> i, out |-> Br] ELSE NoMatch

\* the callback of the map over the paragraphs
Paragraph(paragraph) ==
  IF Trim(paragraph) = <<>> THEN <<>>
  ELSE IF IsBlockElement(Trim(paragraph)) THEN paragraph
  ELSE LET trimmed == Trim(paragraph)
       IN  POpen \o ReplaceAll([i \in 1..Len(trimmed) |-> NewlineMatch(trimmed, i)], trimmed)
             \o PClose

\* the third statement of markdownToHTML
Paragraphs(s) ==
  LET blocks == SplitParagraphs(s, 1)
  IN  Join([k \in 1..Len(blocks) |-> Paragraph(blocks[k])])

markdownToHTML(md) == Paragraphs(InlineElements(BlockElements(md)))

-----------------------------------------------------------------------------
(* renderContent: math shielding.                                          *)

\* the decimal digits of index, as template literals print a number
RECURSIVE ToDecimal(_)
ToDecimal(n) ==
  LET d == <<"0", "1", "2", "3", "4", "5", "6", "7", "8", "9">>[(n % 10) + 1]
  IN  IF n < 10 THEN <<d>> ELSE ToDecimal(n \div 10) \o <<d>>

\* `${placeholder}${index}${placeholder}`
searchString(i) == placeholder \o ToDecimal(i) \o placeholder

\* /(\$\$[\s\S]*?\$\$|\$[\s\S]*?\$)/ at index i: the index of its last character,
\* 0 when it does not match
MathMatchEnd(s, i) ==
  LET display == IF StartsWithAt(s, i, <<"$", "$">>)
                 THEN IndexOfFrom(s, <<"$", "$">>, i + 2) ELSE 0
      inline == IndexOfFrom(s, <<"$">>, i + 1)
  IN  IF s[i] # "$" THEN 0
      ELSE IF display # 0 THEN display + 1
      ELSE inline

\* text.replace(/.../g, (match) => {...}) from index i on, blocks being mathBlocks so far
RECURSIVE ExtractFrom(_, _, _)
ExtractFrom(s, i, blocks) ==
  LET next == {j \in i..Len(s) : MathMatchEnd(s, j) # 0}
      j == Min(next)
      e == MathMatchEnd(s, j)
      rest == ExtractFrom(s, e + 1, Append(blocks, SubSeq(s, j, e)))
  IN  IF next = {} THEN [text |-> SubSeq(s, i, Len(s)), blocks |-> blocks]
      ELSE [text |-> SubSeq(s, i, j - 1) \o searchString(Len(blocks)) \o rest.text,
            blocks |-> rest.blocks]

\* GetSubstitution of String.prototype.replace(string, string): the replacement text r
\* from index k on, for a match `matched` at index position of str, with no captures
RECURSIVE GetSubstitution(_, _, _, _, _)
GetSubstitution(matched, str, position, r, k) ==
  IF k > Len(r) THEN <<>>
  ELSE IF r[k] # "$" \/ k = Len(r)
  THEN <<r[k]>> \o GetSubstitution(matched, str, position, r, k + 1)
  ELSE CASE r[k + 1] = "$" ->
              <<"$">> \o GetSubstitution(matched, str, position, r, k + 2)
         [] r[k + 1] = "&" ->
              matched \o GetSubstitution(matched, str, position, r, k + 2)
         [] r[k + 1] = BT ->
              SubSeq(str, 1, position - 1)
                \o GetSubstitution(matched, str, position, r, k + 2)
         [] r[k + 1] = "'" ->
              SubSeq(str, position + Len(matched), Len(str))
                \o GetSubstitution(matched, str, position, r, k + 2)
         [] OTHER ->
              <<"$">> \o GetSubstitution(matched, str, position, r, k + 1)

\* html.replace(searchString, block): the first occurrence only
ReplaceFirst(str, search, block) ==
  LET position == IndexOfFrom(str, search, 1)
  IN  IF position = 0 THEN str
      ELSE SubSeq(str, 1, position - 1)
             \o GetSubstitution(search, str, position, block, 1)
             \o SubSeq(str, position + Len(search), Len(str))

\* a guard that also returns null for a text of one character
IsShort(t) == Len(t) <= 1

\* if (!text) return null
IsEmpty(t) == t = <<>>

-----------------------------------------------------------------------------
(* renderContent(text), statement by statement.                            *)

ReturnNull ==
  /\ pc = "renderContent"
  /\ IsEmpty(text)
  /\ pc' = "null"
  /\ UNCHANGED <<text, markdown, textWithPlaceholders, mathBlocks, html, index>>
  /\ UNCHANGED typingVars

Extract ==
  /\ pc = "renderContent"
  /\ ~IsEmpty(text)
  /\ LET r == ExtractFrom(text, 1, <<>>)
     IN  /\ textWithPlaceholders' = r.text
         /\ mathBlocks' = r.blocks
  /\ pc' = "convert"
  /\ UNCHANGED <<text, markdown, html, index>>
  /\ UNCHANGED typingVars

Convert ==
  /\ pc = "convert"
  /\ html' = markdownToHTML(textWithPlaceholders)
  /\ index' = 0
  /\ pc' = "restore"
  /\ UNCHANGED <<text, markdown, textWithPlaceholders, mathBlocks>>
  /\ UNCHANGED typingVars

Restore ==
  /\ pc = "restore"
  /\ index < Len(mathBlocks)
  /\ html' = ReplaceFirst(html, searchString(index), mathBlocks[index + 1])
  /\ index' = index + 1
  /\ UNCHANGED <<text, markdown, textWithPlaceholders, mathBlocks, pc>>
  /\ UNCHANGED typingVars

Return ==
  /\ pc = "restore"
  /\ index = Len(mathBlocks)
  /\ pc' = "done"
  /\ UNCHANGED <<text, markdown, textWithPlaceholders, mathBlocks, html, index>>
  /\ UNCHANGED typingVars

NextRender == ReturnNull \/ Extract \/ Convert \/ Restore \/ Return

-----------------------------------------------------------------------------
(* markdownToHTML(markdown), statement by statement.                       *)

ConvertBlocks ==
  /\ pc = "markdownToHTML"
  /\ html' = BlockElements(markdown)
  /\ pc' = "inline"
  /\ UNCHANGED <<text, markdown, textWithPlaceholders, mathBlocks, index>>
  /\ UNCHANGED typingVars

ConvertInline ==
  /\ pc = "inline"
  /\ html' = InlineElements(html)
  /\ pc' = "paragraphs"
  /\ UNCHANGED <<text, markdown, textWithPlaceholders, mathBlocks, index>>
  /\ UNCHANGED typingVars

ConvertParagraphs ==
  /\ pc = "paragraphs"
  /\ html' = Paragraphs(html)
  /\ pc' = "returned"
  /\ UNCHANGED <<text, markdown, textWithPlaceholders, mathBlocks, index>>
  /\ UNCHANGED typingVars

NextConvert == ConvertBlocks \/ ConvertInline \/ ConvertParagraphs

-----------------------------------------------------------------------------
(* ChatMessage: the effect of the typing animation.                        *)

\* String.prototype.substring(0, n)
Substring(s, n) == SubSeq(s, 1, IF n > Len(s) THEN Len(s) ELSE n)

\* clearTimeout(id): cancels the pending timeout of that id, if there is one
ClearTimeout(pending, id) == {t \in pending : t.id # id}

\* const shouldAnimate = message.role === 'model' && isLastMessage && isLoading
shouldAnimate == role = "model" /\ isLastMessage /\ isLoading

\* the delay of the timeout for nextChar, in ms; for an ordinary character the
\* source draws it from 25 to 45 (25 + Math.random() * 20), of which this is the floor
delay(nextChar) ==
  IF nextChar \in {".", "?", "!", ",", ";", ":"} THEN 250
  ELSE IF nextChar = "\n" THEN 150
  ELSE 25

\* a timer that reveals two characters at a time
typeTwoChars(t) == Substring(t.text, t.shown + 2)

\* const typeNextChar = () => setDisplayedText(message.text.substring(0, displayedText.length + 1)),
\* with the message.text and displayedText of the render that set the timeout
typeNextChar(t) == Substring(t.text, t.shown + 1)

\* One run of the effect: the cleanup the previous run returned, then the body.
RunEffect ==
  /\ pc = "mounted"
  /\ effectDue
  /\ LET afterCleanup == IF hasCleanup THEN ClearTimeout(timers, timeoutRef) ELSE timers
         cleared == ClearTimeout(afterCleanup, timeoutRef)
     IN  IF ~shouldAnimate
         THEN /\ displayedText' = messageText
              /\ effectDue' = (displayedText # messageText)
              /\ hasCleanup' = FALSE
              /\ timers' = cleared
              /\ UNCHANGED <<timeoutRef, nextTimerId>>
         ELSE IF Len(displayedText) < Len(messageText)
         THEN /\ timers' = cleared \cup
                   {[id |-> nextTimerId, text |-> messageText,
                     shown |-> Len(displayedText),
                     delay |-> delay(messageText[Len(displayedText) + 1])]}
              /\ timeoutRef' = nextTimerId
              /\ nextTimerId' = nextTimerId + 1
              /\ hasCleanup' = TRUE
              /\ effectDue' = FALSE
              /\ UNCHANGED displayedText
         ELSE /\ displayedText' =
                   IF ~isLoading /\ displayedText # messageText
                   THEN messageText ELSE displayedText
              /\ effectDue' = (~isLoading /\ displayedText # messageText)
              /\ hasCleanup' = TRUE
              /\ timers' = cleared
              /\ UNCHANGED <<timeoutRef, nextTimerId>>
  /\ UNCHANGED <<messageText, role, isLastMessage, isLoading>>
  /\ UNCHANGED renderVars

\* A pending timeout fires and calls typeNextChar.
TimerFire ==
  /\ pc = "mounted"
  /\ \E t \in timers :
       /\ timers' = timers \ {t}
       /\ displayedText' = typeNextChar(t)
       /\ effectDue' = (effectDue \/ typeNextChar(t) # displayedText)
  /\ UNCHANGED <<messageText, role, isLastMessage, isLoading, timeoutRef, nextTimerId,
                 hasCleanup>>
  /\ UNCHANGED renderVars

\* The parent renders the message with more streamed text.
AppendText ==
  /\ pc = "mounted"
  /\ Len(messageText) < MaxMessageLen
  /\ \E c \in MessageAlphabet : messageText' = Append(messageText, c)
  /\ effectDue' = TRUE
  /\ UNCHANGED <<role, isLastMessage, isLoading, displayedText, timeoutRef, timers,
                 nextTimerId, hasCleanup>>
  /\ UNCHANGED renderVars

\* The parent renders the message with isLoading false: the answer is complete.
FinishLoading ==
  /\ pc = "mounted"
  /\ isLoading
  /\ isLoading' = FALSE
  /\ effectDue' = TRUE
  /\ UNCHANGED <<messageText, role, isLastMessage, displayedText, timeoutRef, timers,
                 nextTimerId, hasCleanup>>
  /\ UNCHANGED renderVars

\* The parent renders the message with isLastMessage false: a message follows it.
NoLongerLast ==
  /\ pc = "mounted"
  /\ isLastMessage
  /\ isLastMessage' = FALSE
  /\ effectDue' = TRUE
  /\ UNCHANGED <<messageText, role, isLoading, displayedText, timeoutRef, timers,
                 nextTimerId, hasCleanup>>
  /\ UNCHANGED renderVars

NextTyping == RunEffect \/ TimerFire \/ AppendText \/ FinishLoading \/ NoLongerLast

-----------------------------------------------------------------------------
(* The inputs.                                                             *)

\* | c1 | c2 | ... |
RowLine(cells) ==
  <<"|">> \o Join([k \in 1..Len(cells) |-> <<" ">> \o cells[k] \o <<" ", "|">>])

\* | --- | --- | ... |
SeparatorLine(n) == <<"|">> \o Join([k \in 1..n |-> <<" ", "-", "-", "-", " ", "|">>])

\* a header line, a separator line and the row lines, the last line ended by a
\* newline or not
TableText(header, body, newline) ==
  RowLine(header) \o <<"\n">> \o SeparatorLine(Len(header))
    \o Join([k \in 1..Len(body) |-> <<"\n">> \o RowLine(body[k])])
    \o (IF newline THEN <<"\n">> ELSE <<>>)

\* the tables of up to `cols` columns, a number of row lines of `rowCounts` and
\* up to `bodyCells` cells in the row lines
TableTexts(cells, cols, rowCounts, bodyCells) ==
  UNION { UNION { {TableText(header, body, newline) :
                     header \in [1..n -> cells],
                     body \in [1..r -> [1..n -> cells]],
                     newline \in BOOLEAN} :
                  r \in {q \in rowCounts : n * q <= bodyCells}} :
          n \in 1..cols}

\* ```lang, the content, ```
FenceText(lang, code) == Fence \o lang \o <<"\n">> \o code \o Fence

\* **a**, ordinary text, *b*
EmphasisText(a, ordinary, b) ==
  <<"*", "*">> \o a \o <<"*", "*">> \o ordinary \o <<"*">> \o b \o <<"*">>

MathTexts == Strings(MathAlphabet, 0, MaxTextLen)

MathTableTexts == TableTexts(MathCells, MaxMathCols, {1}, MaxMathCols)

TableInputs == TableTexts(CellTexts, MaxCols, 0..MaxRows, MaxBodyCells)

FenceInputs ==
  {FenceText(lang, code) : lang \in Langs, code \in Strings(CodeAlphabet, 0, MaxCodeLen)}

PlainTexts == Strings(PlainAlphabet, 0, MaxPlainLen)

EmphasisInputs ==
  {EmphasisText(a, ordinary, b) :
     a \in Strings(EmphasisAlphabet, 1, MaxEmphasisLen),
     ordinary \in OrdinaryTexts,
     b \in Strings(EmphasisAlphabet, 1, MaxEmphasisLen)}

-----------------------------------------------------------------------------
(* The specifications.                                                     *)

RenderIdle ==
  /\ text = <<>>
  /\ markdown = <<>>
  /\ textWithPlaceholders = <<>>
  /\ mathBlocks = <<>>
  /\ html = <<>>
  /\ index = 0

TypingIdle ==
  /\ messageText = <<>>
  /\ role = "user"
  /\ isLastMessage = FALSE
  /\ isLoading = FALSE
  /\ displayedText = <<>>
  /\ timeoutRef = 0
  /\ timers = {}
  /\ nextTimerId = 1
  /\ effectDue = FALSE
  /\ hasCleanup = FALSE

\* renderContent is called with a text
InitRender ==
  /\ text \in MathTexts \cup MathTableTexts
  /\ markdown = <<>>
  /\ textWithPlaceholders = <<>>
  /\ mathBlocks = <<>>
  /\ html = <<>>
  /\ index = 0
  /\ pc = "renderContent"
  /\ TypingIdle

\* markdownToHTML is called with a markdown text
InitConvert ==
  /\ markdown \in TableInputs \cup FenceInputs \cup PlainTexts
  /\ text = <<>>
  /\ textWithPlaceholders = <<>>
  /\ mathBlocks = <<>>
  /\ html = <<>>
  /\ index = 0
  /\ pc = "markdownToHTML"
  /\ TypingIdle

\* markdownToHTML is called with **a**, ordinary text, *b*
InitEmphasis ==
  /\ markdown \in EmphasisInputs
  /\ text = <<>>
  /\ textWithPlaceholders = <<>>
  /\ mathBlocks = <<>>
  /\ html = <<>>
  /\ index = 0
  /\ pc = "markdownToHTML"
  /\ TypingIdle

\* a ChatMessage is mounted: useState(''), useRef(null), the effect yet to run
InitTyping ==
  /\ messageText \in Strings(MessageAlphabet, 0, 1)
  /\ role \in {"user", "model"}
  /\ isLastMessage \in BOOLEAN
  /\ isLoading \in BOOLEAN
  /\ displayedText = <<>>
  /\ timeoutRef = 0
  /\ timers = {}
  /\ nextTimerId = 1
  /\ effectDue = TRUE
  /\ hasCleanup = FALSE
  /\ pc = "mounted"
  /\ RenderIdle

SpecRender == InitRender /\ [][NextRender]_vars

SpecConvert == InitConvert /\ [][NextConvert]_vars

SpecEmphasis == InitEmphasis /\ [][NextConvert]_vars

SpecTyping ==
  /\ InitTyping
  /\ [][NextTyping]_vars
  /\ WF_vars(RunEffect)
  /\ WF_vars(TimerFire)

Init == InitRender \/ InitConvert \/ InitEmphasis \/ InitTyping

Next == NextRender \/ NextConvert \/ NextTyping

Spec == Init /\ [][Next]_vars

-----------------------------------------------------------------------------
(* The properties.                                                         *)

Range(s) == {s[k] : k \in 1..Len(s)}

Contains(s, p) == IndexOfFrom(s, p, 1) # 0

IsPrefix(a, b) == Len(a) <= Len(b) /\ SubSeq(b, 1, Len(a)) = a

\* str with the first occurrence of search replaced by the characters of block,
\* none of them special
RECURSIVE VerbatimRestore(_, _, _)
VerbatimRestore(str, blocks, i) ==
  LET search == searchString(i)
      position == IndexOfFrom(str, search, 1)
      restored == IF position = 0 THEN str
                  ELSE SubSeq(str, 1, position - 1) \o blocks[i + 1]
                         \o SubSeq(str, position + Len(search), Len(str))
  IN  IF i >= Len(blocks) THEN str ELSE VerbatimRestore(restored, blocks, i + 1)

\* C1: when renderContent returns, the markup is the converted text with every
\* placeholder replaced by its math span character for character, so every
\* extracted span, delimiters and body, is in the returned markup unchanged.
C1_SpansRestoredVerbatim ==
  pc = "done" =>
    /\ html = VerbatimRestore(markdownToHTML(textWithPlaceholders), mathBlocks, 0)
    /\ \A k \in 1..Len(mathBlocks) : Contains(html, mathBlocks[k])

\* C2: every placeholder is in the converted markup when its span is to be
\* restored, and no placeholder is left in the markup renderContent returns.
C2_PlaceholdersSurvive ==
  /\ (pc = "restore" /\ index < Len(mathBlocks)) => Contains(html, searchString(index))
  /\ pc = "done" => ~Contains(html, placeholder)

\* C3: for a text without a dollar sign renderContent extracts no span, converts
\* the text itself and returns markdownToHTML(text); it returns null, without
\* converting, for the empty text only.
C3_NoMathIsPlainConversion ==
  "$" \notin Range(text) =>
    /\ pc = "null" => text = <<>> /\ markdownToHTML(text) = <<>>
    /\ pc \in {"convert", "restore", "done"} =>
         /\ text # <<>>
         /\ mathBlocks = <<>>
         /\ textWithPlaceholders = text
    /\ pc \in {"restore", "done"} => html = markdownToHTML(text)

\* a text with a bold run and no dollar sign, converted and returned
C3_Witness ==
  /\ pc = "done"
  /\ "$" \notin Range(text)
  /\ Len(text) = MaxTextLen
  /\ Contains(html, StrongOpen)

\* the lines of a table text
TableLines(t) ==
  LET lines == Split(t, "\n")
  IN  IF lines[Len(lines)] = <<>> THEN SubSeq(lines, 1, Len(lines) - 1) ELSE lines

\* the cells between the bars of a line | c1 | c2 | ... |, trimmed
LineCells(line) ==
  LET pieces == Slice(Split(line, "|"))
  IN  [k \in 1..Len(pieces) |-> Trim(pieces[k])]

\* the table of a header line, a separator line and the row lines
ExpectedTable(t) ==
  LET lines == TableLines(t)
      head == LineCells(lines[1])
  IN  TableOpen
        \o Join([k \in 1..Len(head) |-> ThOpen \o head[k] \o ThClose])
        \o TableMid
        \o Join([r \in 1..(Len(lines) - 2) |->
                   LET cells == LineCells(lines[r + 2])
                   IN  TrOpen \o Join([k \in 1..Len(cells) |-> TdOpen \o cells[k] \o TdClose])
                         \o TrClose])
        \o TableClose

\* C4: a header line, a separator line and zero or more row lines become one
\* table with a th per header cell in the thead and a tr of td per row line in
\* the tbody, every cell trimmed.
C4_TableRendered ==
  (pc = "returned" /\ markdown \in TableInputs) => html = ExpectedTable(markdown)

\* the language and the content of ```lang, newline, content, ```
FenceLang(t) == SubSeq(t, 4, IndexOfFrom(t, <<"\n">>, 1) - 1)

FenceCode(t) == SubSeq(t, IndexOfFrom(t, <<"\n">>, 1) + 1, Len(t) - 3)

EscapeAngles(code) ==
  Join([k \in 1..Len(code) |->
          IF code[k] = "<" THEN EntLt ELSE IF code[k] = ">" THEN EntGt ELSE <<code[k]>>])

ExpectedCodeBlock(t) ==
  PreCodeOpen \o FenceLang(t) \o PreCodeMid \o Trim(EscapeAngles(FenceCode(t)))
    \o PreCodeClose

\* C5: a fenced code block ```lang, content, ``` is returned as the pre and code
\* elements with the language in the class and, between them, the content
\* trimmed and with < and > escaped, whatever the content is.
C5_FencedCodeRendered ==
  (pc = "returned" /\ markdown \in FenceInputs) => Contains(html, ExpectedCodeBlock(markdown))

\* the positions of the stars of **a**, ordinary text, *b*
Stars(t) == {i \in 1..Len(t) : t[i] = "*"}

BoldText(t) == SubSeq(t, 3, Min(Stars(t) \ {1, 2}) - 1)

OrdinaryText(t) == SubSeq(t, Min(Stars(t) \ {1, 2}) + 2, Max(Stars(t) \ {Len(t)}) - 1)

ItalicText(t) == SubSeq(t, Max(Stars(t) \ {Len(t)}) + 1, Len(t) - 1)

ExpectedEmphasis(t) ==
  POpen \o StrongOpen \o BoldText(t) \o StrongClose \o OrdinaryText(t)
    \o EmOpen \o ItalicText(t) \o EmClose \o PClose

\* C6: **a**, ordinary text, *b*, with a and b not empty and without star or
\* line break, is returned as strong of a, the ordinary text unchanged and em
\* of b, and no star is left in the markup.
C6_BoldBeforeItalic ==
  pc = "returned" =>
    /\ html = ExpectedEmphasis(markdown)
    /\ ~Contains(html, <<"*">>)

\* a backtick, a text without backtick or line break, a backtick
IsCodeSpan(t) ==
  /\ Len(t) >= 3
  /\ t[1] = BT
  /\ t[Len(t)] = BT
  /\ Range(SubSeq(t, 2, Len(t) - 1)) \cap {BT, "\n"} = {}

\* C7: a text between two backticks is returned inside the inline code element
\* as it was written.
C7_InlineCodeLiteral ==
  (pc = "returned" /\ IsCodeSpan(markdown)) =>
    Contains(html, InlineCodeOpen \o SubSeq(markdown, 2, Len(markdown) - 1) \o InlineCodeClose)

BlockOpeningTags ==
  {HOpen(n) : n \in 1..6}
    \cup {UlOpen, OlOpen, <<"<", "b", "l", "o", "c", "k", "q", "u", "o", "t", "e", ">">>,
          <<"<", "t", "a", "b", "l", "e", ">">>, <<"<", "p", "r", "e", ">">>}

StartsBlockAt(s, i) == \E tag \in BlockOpeningTags : StartsWithAt(s, i, tag)

LineBreaks(s) == Join([k \in 1..Len(s) |-> IF s[k] = "\n" THEN Br ELSE <<s[k]>>])

\* a block is dropped if blank, passed through if it starts with a heading, a
\* list, a blockquote, a table or a pre, and a paragraph otherwise
ExpectedBlock(block) ==
  IF Trim(block) = <<>> THEN <<>>
  ELSE IF StartsBlockAt(Trim(block), 1) THEN block
  ELSE POpen \o LineBreaks(Trim(block)) \o PClose

\* C8: the returned markup is, block by block of the text split at blank lines,
\* nothing for a blank block, the block itself if it starts with the opening tag
\* of a heading, list, blockquote, table or pre, and otherwise the trimmed block
\* in a p with its newlines as br.
C8_ParagraphRule ==
  pc = "returned" =>
    LET blocks == SplitParagraphs(InlineElements(BlockElements(markdown)), 1)
    IN  html = Join([k \in 1..Len(blocks) |-> ExpectedBlock(blocks[k])])

\* position k is after a <p> that is not closed before k
InsideParagraph(s, k) ==
  \E i \in 1..(k - 1) :
    /\ StartsWithAt(s, i, POpen)
    /\ \A j \in i..(k - 1) : ~StartsWithAt(s, j, PClose)

\* position k is after a <pre> that is not closed before k
InsidePre(s, k) ==
  \E i \in 1..(k - 1) :
    /\ StartsWithAt(s, i, <<"<", "p", "r", "e", ">">>)
    /\ \A j \in i..(k - 1) : ~StartsWithAt(s, j, <<"<", "/", "p", "r", "e", ">">>)

\* C9: in the returned markup no heading, list, blockquote, table or pre opens
\* inside a p, and no p opens inside a pre.
C9_BlocksNotInParagraphs ==
  pc = "returned" =>
    \A k \in 1..Len(html) :
      /\ StartsBlockAt(html, k) => ~InsideParagraph(html, k)
      /\ StartsWithAt(html, k, POpen) => ~InsidePre(html, k)

\* at most one timer is pending and the displayed text is a prefix of the text
TypingSafe ==
  /\ Cardinality(timers) <= 1
  /\ IsPrefix(displayedText, messageText)

\* C10: at most one typing timer is pending and the displayed text is a prefix
\* of the message text; a timer that fires adds exactly one character; an
\* effect that runs when the message is not a last, loading model message sets
\* the whole text in one step; and the displayed text reaches the message text
\* again and again.
C10_TypingAnimation ==
  /\ []TypingSafe
  /\ [][TimerFire => displayedText' = Substring(messageText, Len(displayedText) + 1)
                       /\ Len(displayedText') = Len(displayedText) + 1]_vars
  /\ [][(RunEffect /\ ~shouldAnimate) => displayedText' = messageText /\ timers' = {}]_vars
  /\ []<>(displayedText = messageText)

\* a last, loading model message typed out to its last character
C10_Witness ==
  /\ role = "model"
  /\ isLastMessage
  /\ isLoading
  /\ Len(messageText) >= 2
  /\ displayedText = messageText
  /\ timers = {}
  /\ ~effectDue
  /\ nextTimerId > Len(messageText)
====
